---- MODULE Spec2Model ----
(***************************************************************************)
(* Model of src/loader.rs: the OBJ asset loader.  A load takes a byte      *)
(* buffer, has it parsed into an Obj (vertices, indices), derives the      *)
(* POSITION, NORMAL and UV_0 attribute buffers, sets them and the index    *)
(* buffer on a Mesh and hands the Mesh to the host's load context.         *)
(*                                                                         *)
(* Numbers.  Position components are small integers (exactly representable *)
(* as f32).  A component of a normalized vector is x / sqrt(d), kept as    *)
(* the term [num |-> x, den2 |-> d] in lowest terms.  An f32 accumulator   *)
(* component is NaN or the sequence of the non-zero terms added to it, in  *)
(* the order of the additions (<< >> is 0.0).                              *)
(***************************************************************************)
EXTENDS Integers, Sequences, FiniteSets

\* ------------------------------------------------------------------ bounds
MaxN == 3        \* most vertices of an input
MaxM == 6        \* most indices of an input
NumLoads == 2    \* load operations the host may run at the same time

Loads == 1..NumLoads

\* ------------------------------------------------------------------ state
VARIABLES
  bytes,      \* bytes[l]: the byte buffer load l was given
  pc,         \* pc[l]: the statement load l executes next
  obj,        \* obj[l]: the parsed Obj
  mesh,       \* mesh[l]: the local Mesh of load_obj
  positions,  \* positions[l], normals[l], uvs[l]: the locals of load_obj_pnt
  normals,
  uvs,
  asset,      \* asset[l]: the default asset of load l's LoadContext
  setCalls,   \* setCalls[l]: calls of set_default_asset on that context
  result      \* result[l]: the value load l returned

vars == <<bytes, pc, obj, mesh, positions, normals, uvs, asset, setCalls, result>>

\* The position of the i-th vertex of an input: (0,0,0), (1,1,1), (2,4,8), ...
\* No three of these are on a line and no four in a plane.
Point(i) == <<i - 1, (i - 1) * (i - 1), (i - 1) * (i - 1) * (i - 1)>>

\* Option: None, or Some(v).
None == [some |-> FALSE]

Some(v) == [some |-> TRUE, value |-> v]

\* Result: Err(e), or Ok(v).
Err(e) == [ok |-> FALSE, error |-> e]

Ok(v) == [ok |-> TRUE, value |-> v]

\* The f32 NaN: the term 0 / sqrt(0).
NaN == <<[num |-> 0, den2 |-> 0]>>

\* ------------------------------------------------------------------ inputs
\* A byte buffer the parser rejects.
Malformed == [valid |-> FALSE]

\* A byte buffer holding a document with the given vertices and indices.
Document(vs, is) == [valid |-> TRUE, vertices |-> vs, indices |-> is]


\* Inputs of the loads that run side by side: rejected bytes, no geometry,
\* one triangle, a tetrahedron, an index out of range in a window, an index
\* out of range in no window.
ParInputs ==
  { Malformed,
    Document(<< >>, << >>),
    Document(<<<<0, 0, 0>>, <<1, 0, 0>>, <<0, 1, 0>>>>, <<0, 1, 2>>),
    Document(<<<<0, 0, 0>>, <<1, 0, 0>>, <<0, 1, 0>>, <<0, 0, 2>>>>, <<0, 1, 2, 0, 3, 1>>),
    Document(<<<<1, 0, 0>>, <<0, 1, 0>>>>, <<0, 1, 2>>),
    Document(<<<<0, 0, 0>>>>, <<1>>) }

\* ------------------------------------------------------- the obj parser
\* Variant: bytes the parser rejects are taken as a document with no geometry.
obj_load_obj_lenient(b) ==
  IF ~b.valid THEN Ok([vertices |-> << >>, indices |-> << >>])
  ELSE Ok([vertices |-> [i \in 1..Len(b.vertices) |-> [position |-> b.vertices[i]]],
           indices |-> b.indices])

\* obj::load_obj: Err for bytes it rejects, else the Obj of the document.
obj_load_obj(b) ==
  IF ~b.valid THEN Err("obj::ObjError")
  ELSE Ok([vertices |-> [i \in 1..Len(b.vertices) |-> [position |-> b.vertices[i]]],
           indices |-> b.indices])

\* ------------------------------------------------------------ Vec and f32
\* Vec::get with a 0-based index.
Get(vec, i) == IF i < Len(vec) THEN Some(vec[i + 1]) ELSE None

Abs(x) == IF x < 0 THEN -x ELSE x

RECURSIVE Gcd(_, _)
Gcd(a, b) == IF b = 0 THEN a ELSE Gcd(b, a % b)

\* f32 += of one term onto an accumulator component.
AddTerm(acc, t) ==
  IF acc = NaN \/ t.den2 = 0 THEN NaN
  ELSE IF t.num = 0 THEN acc
  ELSE Append(acc, t)

\* Vec3 of an array of three components.
Vec3From(a) == [x |-> a[1], y |-> a[2], z |-> a[3]]

Vec3Sub(a, b) == [x |-> a.x - b.x, y |-> a.y - b.y, z |-> a.z - b.z]

Vec3Cross(a, b) ==
  [x |-> a.y * b.z - a.z * b.y,
   y |-> a.z * b.x - a.x * b.z,
   z |-> a.x * b.y - a.y * b.x]

\* Vec3::normalize: v * (1 / |v|); the zero vector gives NaN components.
Vec3Normalize(v) ==
  LET len2 == v.x * v.x + v.y * v.y + v.z * v.z
      g == Gcd(Gcd(Abs(v.x), Abs(v.y)), Abs(v.z))
  IN IF len2 = 0
     THEN [x |-> [num |-> 0, den2 |-> 0], y |-> [num |-> 0, den2 |-> 0],
           z |-> [num |-> 0, den2 |-> 0]]
     ELSE [x |-> [num |-> v.x \div g, den2 |-> len2 \div (g * g)],
           y |-> [num |-> v.y \div g, den2 |-> len2 \div (g * g)],
           z |-> [num |-> v.z \div g, den2 |-> len2 \div (g * g)]]

\* Vec3 += of a normalized vector onto an accumulator.
Vec3AddAssign(acc, n) ==
  [x |-> AddTerm(acc.x, n.x), y |-> AddTerm(acc.y, n.y), z |-> AddTerm(acc.z, n.z)]

Vec3Zero == [x |-> << >>, y |-> << >>, z |-> << >>]

\* Vec3::write_to_slice_unaligned into a [f32; 3].
WriteToSlice(v) == <<v.x, v.y, v.z>>

bevy_vec3_from_position(position) == Vec3From(position.position)

\* ------------------------------------------------------ loader functions
\* Variant: the y and z components exchanged.
PositionsOf_swizzled(o) ==
  [i \in 1..Len(o.vertices) |->
     <<o.vertices[i].position[1], o.vertices[i].position[3],
       o.vertices[i].position[2]>>]

\* v.position of each vertex.
PositionsOf(o) == [i \in 1..Len(o.vertices) |-> o.vertices[i].position]

\* Variant: one entry for each index instead of each vertex.
uvs_for_positions_per_index(o) == [i \in 1..Len(o.indices) |-> <<0, 0, 0>>]

\* Variant: the vertex position as the texture coordinate.
uvs_for_positions_projected(o) ==
  [i \in 1..Len(o.vertices) |-> o.vertices[i].position]

\* [0.; 3] for each vertex.
uvs_for_positions(o) == [i \in 1..Len(o.vertices) |-> <<0, 0, 0>>]

\* Variant: the window's second index.
AccumulatorIndex_second(i0, i1, i2) == i1

\* The accumulator a window adds its normal to: the window's first index.
AccumulatorIndex(i0, i1, i2) == i0

\* Variant: chunks of three, one for each triangle.
NextWindow_chunks(k) == k + 3

\* The start of the window after the one at k: windows(3) advances by one.
NextWindow(k) == k + 1

\* The loop over indexes.windows(3), from the window at (1-based) k on.
RECURSIVE WindowsLoop(_, _, _, _)
WindowsLoop(vertices, indexes, k, acc) ==
  IF k + 2 > Len(indexes) THEN Ok(acc)
  ELSE
    LET i0 == indexes[k]
        i1 == indexes[k + 1]
        i2 == indexes[k + 2]
    IN IF Get(vertices, i0) = None \/ Get(vertices, i1) = None
          \/ Get(vertices, i2) = None
       THEN Err("panic")
       ELSE
         LET v0 == bevy_vec3_from_position(Get(vertices, i0).value)
             v1 == bevy_vec3_from_position(Get(vertices, i1).value)
             v2 == bevy_vec3_from_position(Get(vertices, i2).value)
             normal == Vec3Normalize(Vec3Cross(Vec3Sub(v0, v1), Vec3Sub(v2, v1)))
             a == AccumulatorIndex(i0, i1, i2)
         IN WindowsLoop(vertices, indexes, NextWindow(k),
                        [acc EXCEPT ![a + 1] = Vec3AddAssign(@, normal)])

\* Variant: the accumulators are a buffer the loader keeps between loads; a
\* load finds in it what the last load of as many vertices left there.
InitialNormals_shared(vertices) ==
  IF \E l \in Loads : normals[l].some /\ Len(normals[l].value) = Len(vertices)
  THEN LET l == CHOOSE k \in Loads :
                  normals[k].some /\ Len(normals[k].value) = Len(vertices)
       IN [i \in 1..Len(vertices) |-> Vec3From(normals[l].value[i])]
  ELSE [i \in 1..Len(vertices) |-> Vec3Zero]

\* The accumulators before the loop: zero for each vertex.
InitialNormals(vertices) == [i \in 1..Len(vertices) |-> Vec3Zero]

\* A panic, or one [f32; 3] for each vertex.
normals_for_positions(o) ==
  LET r == WindowsLoop(o.vertices, o.indices, 1, InitialNormals(o.vertices))
  IN IF ~r.ok THEN r
     ELSE Ok([i \in 1..Len(r.value) |-> WriteToSlice(r.value[i])])

\* ------------------------------------------------------------------- Mesh
\* Mesh::new: no attributes, no indices.
NoAttributes == [n \in {} |-> None]

MeshNew(topology) == [topology |-> topology, attributes |-> NoAttributes, indices |-> None]

SetAttribute(m, name, values) ==
  [m EXCEPT !.attributes =
     [n \in (DOMAIN m.attributes) \cup {name} |->
        IF n = name THEN values ELSE m.attributes[n]]]

\* Variant: the indices are not stored.
SetIndices_dropped(m, indices) == m

SetIndices(m, indices) == [m EXCEPT !.indices = indices]

\* Variant: the indices re-based from 0 to 1.
IndicesU32_rebased(o) == [i \in 1..Len(o.indices) |-> o.indices[i] + 1]

\* Indices::U32 of the obj's indices.
IndicesU32(o) == [i \in 1..Len(o.indices) |-> o.indices[i]]

\* load_obj run from its first statement to its last on bytes b: whether it
\* panicked, the value it returned, and the asset it set on its LoadContext.
load_obj(b) ==
  LET r == obj_load_obj(b)
  IN IF ~r.ok
     THEN [panicked |-> FALSE, result |-> "Err(ObjError::Gltf)", asset |-> None]
     ELSE
       LET n == normals_for_positions(r.value)
           m1 == SetAttribute(MeshNew("TriangleList"), "POSITION", PositionsOf(r.value))
           m2 == SetAttribute(m1, "NORMAL", n.value)
           m3 == SetAttribute(m2, "UV_0", uvs_for_positions(r.value))
           m4 == SetIndices(m3, Some(IndicesU32(r.value)))
       IN IF ~n.ok
          THEN [panicked |-> TRUE, result |-> "Pending", asset |-> None]
          ELSE [panicked |-> FALSE, result |-> "Ok", asset |-> Some(m4)]

Fresh(b, requested) ==
  /\ bytes = b
  /\ pc = [l \in Loads |-> IF l \in requested THEN "new_mesh" ELSE "unrequested"]
  /\ obj = [l \in Loads |-> None]
  /\ mesh = [l \in Loads |-> None]
  /\ positions = [l \in Loads |-> None]
  /\ normals = [l \in Loads |-> None]
  /\ uvs = [l \in Loads |-> None]
  /\ asset = [l \in Loads |-> None]
  /\ setCalls = [l \in Loads |-> 0]
  /\ result = [l \in Loads |-> "Pending"]

\* Load 1 alone, given b.
Single(b) == Fresh([l \in Loads |-> IF l = 1 THEN b ELSE Malformed], {1})

\* One load: of bytes the parser rejects, or of a document with n <= MaxN
\* vertices and m <= MaxM indices, each index in 0..n (n itself is the
\* out-of-range value).
Init ==
  \/ Single(Malformed)
  \/ \E n \in 0..MaxN, m \in 0..MaxM :
       \E is \in [1..m -> 0..n] :
         Single(Document([i \in 1..n |-> Point(i)], is))

\* Every load requested, each with its own input.
InitPar == \E b \in [Loads -> ParInputs] : Fresh(b, Loads)

\* ---------------------------------------------------------------- actions
\* load_obj: let mut mesh = Mesh::new(PrimitiveTopology::TriangleList)
NewMesh(l) ==
  /\ pc[l] = "new_mesh"
  /\ mesh' = [mesh EXCEPT ![l] = Some(MeshNew("TriangleList"))]
  /\ pc' = [pc EXCEPT ![l] = "parse"]
  /\ UNCHANGED <<bytes, obj, positions, normals, uvs, asset, setCalls, result>>

\* load_obj: obj::load_obj(bytes)? -- a format error returns Err(ObjError::Gltf)
Parse(l) ==
  /\ pc[l] = "parse"
  /\ LET r == obj_load_obj(bytes[l])
     IN IF ~r.ok
        THEN /\ result' = [result EXCEPT ![l] = "Err(ObjError::Gltf)"]
             /\ mesh' = [mesh EXCEPT ![l] = None]
             /\ pc' = [pc EXCEPT ![l] = "done"]
             /\ obj' = obj
        ELSE /\ obj' = [obj EXCEPT ![l] = Some(r.value)]
             /\ pc' = [pc EXCEPT ![l] = "positions"]
             /\ UNCHANGED <<mesh, result>>
  /\ UNCHANGED <<bytes, positions, normals, uvs, asset, setCalls>>

\* load_obj_pnt: let positions = Float3(vertices.map(|v| v.position))
Positions(l) ==
  /\ pc[l] = "positions"
  /\ positions' = [positions EXCEPT ![l] = Some(PositionsOf(obj[l].value))]
  /\ pc' = [pc EXCEPT ![l] = "normals"]
  /\ UNCHANGED <<bytes, obj, mesh, normals, uvs, asset, setCalls, result>>

\* load_obj_pnt: let normals = Float3(normals_for_positions(&obj)); an
\* unwrap of None panics and unwinds out of the load.
Normals(l) ==
  /\ pc[l] = "normals"
  /\ LET r == normals_for_positions(obj[l].value)
     IN IF ~r.ok
        THEN /\ pc' = [pc EXCEPT ![l] = "panicked"]
             /\ mesh' = [mesh EXCEPT ![l] = None]
             /\ normals' = normals
        ELSE /\ normals' = [normals EXCEPT ![l] = Some(r.value)]
             /\ pc' = [pc EXCEPT ![l] = "uvs"]
             /\ mesh' = mesh
  /\ UNCHANGED <<bytes, obj, positions, uvs, asset, setCalls, result>>

\* load_obj_pnt: let uvs = uvs_for_positions(&obj)
Uvs(l) ==
  /\ pc[l] = "uvs"
  /\ uvs' = [uvs EXCEPT ![l] = Some(uvs_for_positions(obj[l].value))]
  /\ pc' = [pc EXCEPT ![l] = "set_position"]
  /\ UNCHANGED <<bytes, obj, mesh, positions, normals, asset, setCalls, result>>

\* load_obj_pnt: mesh.set_attribute(Mesh::ATTRIBUTE_POSITION, positions)
SetPosition(l) ==
  /\ pc[l] = "set_position"
  /\ mesh' = [mesh EXCEPT ![l] = Some(SetAttribute(@.value, "POSITION", positions[l].value))]
  /\ pc' = [pc EXCEPT ![l] = "set_normal"]
  /\ UNCHANGED <<bytes, obj, positions, normals, uvs, asset, setCalls, result>>

\* load_obj_pnt: mesh.set_attribute(Mesh::ATTRIBUTE_NORMAL, normals)
SetNormal(l) ==
  /\ pc[l] = "set_normal"
  /\ mesh' = [mesh EXCEPT ![l] = Some(SetAttribute(@.value, "NORMAL", normals[l].value))]
  /\ pc' = [pc EXCEPT ![l] = "set_uv"]
  /\ UNCHANGED <<bytes, obj, positions, normals, uvs, asset, setCalls, result>>

\* load_obj_pnt: mesh.set_attribute(Mesh::ATTRIBUTE_UV_0, uvs)
SetUv(l) ==
  /\ pc[l] = "set_uv"
  /\ mesh' = [mesh EXCEPT ![l] = Some(SetAttribute(@.value, "UV_0", uvs[l].value))]
  /\ pc' = [pc EXCEPT ![l] = "set_indices"]
  /\ UNCHANGED <<bytes, obj, positions, normals, uvs, asset, setCalls, result>>

\* set_mesh_indices: mesh.set_indices(Some(Indices::U32(obj.indices)))
SetMeshIndices(l) ==
  /\ pc[l] = "set_indices"
  /\ mesh' = [mesh EXCEPT ![l] = Some(SetIndices(@.value, Some(IndicesU32(obj[l].value))))]
  /\ pc' = [pc EXCEPT ![l] = "set_default_asset"]
  /\ UNCHANGED <<bytes, obj, positions, normals, uvs, asset, setCalls, result>>

\* load_obj: load_context.set_default_asset(LoadedAsset::new(mesh))
SetDefaultAsset(l) ==
  /\ pc[l] = "set_default_asset"
  /\ asset' = [asset EXCEPT ![l] = mesh[l]]
  /\ setCalls' = [setCalls EXCEPT ![l] = @ + 1]
  /\ mesh' = [mesh EXCEPT ![l] = None]
  /\ pc' = [pc EXCEPT ![l] = "return"]
  /\ UNCHANGED <<bytes, obj, positions, normals, uvs, result>>

\* load_obj: Ok(())
Return(l) ==
  /\ pc[l] = "return"
  /\ result' = [result EXCEPT ![l] = "Ok"]
  /\ pc' = [pc EXCEPT ![l] = "done"]
  /\ UNCHANGED <<bytes, obj, mesh, positions, normals, uvs, asset, setCalls>>

Next ==
  \E l \in Loads :
    \/ NewMesh(l)
    \/ Parse(l)
    \/ Positions(l)
    \/ Normals(l)
    \/ Uvs(l)
    \/ SetPosition(l)
    \/ SetNormal(l)
    \/ SetUv(l)
    \/ SetMeshIndices(l)
    \/ SetDefaultAsset(l)
    \/ Return(l)

Spec == Init /\ [][Next]_vars

SpecPar == InitPar /\ [][Next]_vars

\* ----------------------------------------------------------------- claims
\* The input of load l.
InN(l) == Len(bytes[l].vertices)

InM(l) == Len(bytes[l].indices)

Parsed(l) == pc[l] # "unrequested" /\ bytes[l].valid

InRange(l) == \A i \in 1..InM(l) : bytes[l].indices[i] < InN(l)

Ended(l) == pc[l] \in {"done", "panicked"}

\* The Mesh load l handed to the host.
Handed(l) == asset[l].value

AttributeNames == {"POSITION", "NORMAL", "UV_0"}

\* C1: a load of N positions and M indices, all indices in [0, N), does not
\* fail, and the Mesh it hands over has POSITION, NORMAL and UV_0 buffers of
\* length N each and an index buffer of length M.
C1_Lengths ==
  \A l \in Loads :
    (Parsed(l) /\ InRange(l)) =>
      /\ pc[l] # "panicked"
      /\ result[l] \in {"Pending", "Ok"}
      /\ pc[l] = "done" => (result[l] = "Ok" /\ asset[l].some)
      /\ asset[l].some =>
           /\ DOMAIN Handed(l).attributes = AttributeNames
           /\ \A a \in AttributeNames : Len(Handed(l).attributes[a]) = InN(l)
           /\ Handed(l).indices.some
           /\ Len(Handed(l).indices.value) = InM(l)

C1_Witness ==
  \E l \in Loads :
    /\ Parsed(l) /\ InRange(l) /\ InN(l) = 3 /\ InM(l) = 4
    /\ pc[l] = "done" /\ asset[l].some

\* The offsets (from 1) of the windows of the index list is whose first
\* index is vertex v (from 0).
StartOffsets(is, v) == {k \in 1..(Len(is) - 2) : is[k] = v}

\* normalize(cross(p[i0] - p[i1], p[i2] - p[i1])) of the window at offset k.
WindowNormal(vs, is, k) ==
  LET p0 == Vec3From(vs[is[k] + 1])
      p1 == Vec3From(vs[is[k + 1] + 1])
      p2 == Vec3From(vs[is[k + 2] + 1])
  IN Vec3Normalize(Vec3Cross(Vec3Sub(p0, p1), Vec3Sub(p2, p1)))

Max(K) == CHOOSE k \in K : \A j \in K : j <= k

\* The sum of the normals of the windows at the offsets K, in their order.
RECURSIVE SumOfNormals(_, _, _)
SumOfNormals(vs, is, K) ==
  IF K = {} THEN Vec3Zero
  ELSE Vec3AddAssign(SumOfNormals(vs, is, K \ {Max(K)}), WindowNormal(vs, is, Max(K)))

ExpectedNormal(l, v) ==
  WriteToSlice(SumOfNormals(bytes[l].vertices, bytes[l].indices,
                            StartOffsets(bytes[l].indices, v)))

\* C2: once the normals are computed, NORMAL[v] of every vertex v is the sum
\* of normalize(cross(p[i0] - p[i1], p[i2] - p[i1])) over exactly the windows
\* (i0, i1, i2) of three consecutive indices, advancing by one, with i0 = v:
\* not renormalized, and zero for a vertex that starts no window.
C2_NormalIsSumOverWindows ==
  \A l \in Loads :
    /\ normals[l].some =>
         /\ Len(normals[l].value) = InN(l)
         /\ \A v \in 0..(InN(l) - 1) : normals[l].value[v + 1] = ExpectedNormal(l, v)
    /\ asset[l].some =>
         \A v \in 0..(InN(l) - 1) :
           Handed(l).attributes["NORMAL"][v + 1] = ExpectedNormal(l, v)

\* A vertex that starts two windows with normals of different directions and
\* one that starts a single window.
C2_Witness ==
  \E l \in Loads :
    /\ asset[l].some
    /\ \E v \in 0..(InN(l) - 1) :
         /\ Cardinality(StartOffsets(bytes[l].indices, v)) = 2
         /\ Len(Handed(l).attributes["NORMAL"][v + 1][1]) = 2
         /\ Handed(l).attributes["NORMAL"][v + 1][1][1]
              # Handed(l).attributes["NORMAL"][v + 1][1][2]
    /\ \E v \in 0..(InN(l) - 1) :
         /\ Cardinality(StartOffsets(bytes[l].indices, v)) = 1
         /\ Handed(l).attributes["NORMAL"][v + 1] # <<NaN, NaN, NaN>>

\* C3 as stated: an index >= N anywhere in the index list makes the load fail,
\* and no Mesh is handed to the host.
C3_AnyIndexOutOfRangeIsFatal ==
  \A l \in Loads :
    (Parsed(l) /\ ~InRange(l)) =>
      /\ ~asset[l].some
      /\ setCalls[l] = 0
      /\ result[l] # "Ok"

\* C3 amended: an index >= N in an index list of at least three elements
\* makes the load fail in normals_for_positions; no attribute is set on a
\* Mesh and no Mesh is handed to the host.
C3_OutOfRangeInWindowIsFatal ==
  \A l \in Loads :
    (Parsed(l) /\ ~InRange(l) /\ InM(l) >= 3) =>
      /\ pc[l] \in {"new_mesh", "parse", "positions", "normals", "panicked"}
      /\ ~asset[l].some
      /\ setCalls[l] = 0
      /\ result[l] = "Pending"
      /\ ~normals[l].some
      /\ mesh[l].some => mesh[l].value = MeshNew("TriangleList")

\* The out-of-range index is the last of the list, after a complete triangle.
C3_Witness ==
  \E l \in Loads :
    /\ Parsed(l) /\ InM(l) = 4 /\ InN(l) = 3
    /\ \A i \in 1..3 : bytes[l].indices[i] < InN(l)
    /\ bytes[l].indices[4] = InN(l)
    /\ pc[l] = "panicked"

\* C4 as stated: a load that ended without handing over a Mesh returned a
\* typed failure value.
C4_FailureIsReturnedValue ==
  \A l \in Loads :
    (Ended(l) /\ ~asset[l].some) => result[l] = "Err(ObjError::Gltf)"

\* C5: when the parser rejects the bytes the load returns the failure, and
\* set_default_asset is never called: the load context holds no asset.
C5_FormatErrorLeavesContext ==
  \A l \in Loads :
    (pc[l] # "unrequested" /\ ~bytes[l].valid) =>
      /\ setCalls[l] = 0
      /\ ~asset[l].some
      /\ pc[l] \in {"new_mesh", "parse", "done"}
      /\ pc[l] = "done" => (result[l] = "Err(ObjError::Gltf)" /\ ~mesh[l].some)

C5_Witness ==
  \E l \in Loads :
    ~bytes[l].valid /\ pc[l] = "done" /\ result[l] = "Err(ObjError::Gltf)"

\* C6: POSITION of the Mesh handed over is the input positions, element for
\* element in the same order.
C6_PositionIsInput ==
  \A l \in Loads :
    asset[l].some =>
      /\ Len(Handed(l).attributes["POSITION"]) = InN(l)
      /\ \A i \in 1..InN(l) :
           Handed(l).attributes["POSITION"][i] = bytes[l].vertices[i]

C6_Witness ==
  \E l \in Loads :
    /\ asset[l].some /\ InN(l) = 3
    /\ Handed(l).attributes["POSITION"] = <<Point(1), Point(2), Point(3)>>

\* C7: the index buffer of the Mesh handed over is the input indices, same
\* values in the same order, and the topology of every Mesh is TriangleList.
C7_IndicesAreInput ==
  \A l \in Loads :
    /\ mesh[l].some => mesh[l].value.topology = "TriangleList"
    /\ asset[l].some =>
         /\ Handed(l).topology = "TriangleList"
         /\ Handed(l).indices = Some(bytes[l].indices)

\* An index count that is no multiple of 3, with a repeated index.
C7_Witness ==
  \E l \in Loads :
    /\ asset[l].some /\ InM(l) = 4
    /\ bytes[l].indices[1] = 2 /\ bytes[l].indices[4] = 2
    /\ Handed(l).topology = "TriangleList"

\* C8: UV_0 of the Mesh handed over is (0,0,0) for each of the N vertices.
C8_UvIsZero ==
  \A l \in Loads :
    asset[l].some =>
      /\ Len(Handed(l).attributes["UV_0"]) = InN(l)
      /\ \A i \in 1..InN(l) : Handed(l).attributes["UV_0"][i] = <<0, 0, 0>>

C8_Witness ==
  \E l \in Loads :
    /\ asset[l].some /\ InN(l) = 3 /\ InM(l) >= 3
    /\ Handed(l).attributes["POSITION"][2] # <<0, 0, 0>>

\* C9: set_default_asset is called once in a load that returns Ok and never
\* in any other, and the Mesh it hands over has POSITION, NORMAL, UV_0 and the
\* indices set.
C9_OneCompleteHandOff ==
  \A l \in Loads :
    /\ setCalls[l] <= 1
    /\ (setCalls[l] = 1) = asset[l].some
    /\ (result[l] = "Ok") => setCalls[l] = 1
    /\ (Ended(l) /\ result[l] # "Ok") => setCalls[l] = 0
    /\ asset[l].some =>
         /\ DOMAIN Handed(l).attributes = AttributeNames
         /\ Handed(l).indices.some

C9_Witness ==
  \E l \in Loads : result[l] = "Ok" /\ setCalls[l] = 1 /\ InM(l) >= 3

\* C10: what a load ends with depends on its own input alone: each load ends
\* as load_obj run alone on its bytes does, whatever the other loads do in
\* between, and two loads of the same bytes end alike.
C10_OutcomeIsFunctionOfInput ==
  /\ \A l \in Loads :
       Ended(l) =>
         /\ (pc[l] = "panicked") = load_obj(bytes[l]).panicked
         /\ result[l] = load_obj(bytes[l]).result
         /\ asset[l] = load_obj(bytes[l]).asset
  /\ \A l1, l2 \in Loads :
       (Ended(l1) /\ Ended(l2) /\ bytes[l1] = bytes[l2]) =>
         /\ pc[l1] = pc[l2]
         /\ result[l1] = result[l2]
         /\ asset[l1] = asset[l2]

\* Two loads of the same geometry, of at least one window, have both ended
\* with a Mesh.
C10_Witness ==
  \E l1, l2 \in Loads :
    /\ l1 # l2
    /\ bytes[l1] = bytes[l2]
    /\ asset[l1].some /\ asset[l2].some
    /\ InM(l1) >= 3
    /\ Ended(l1) /\ Ended(l2)

====
